---- MODULE Spec2Model ----
(***************************************************************************)
(* Model of the dead-air audio analysis scripts:                           *)
(*   packages/visualizer-poc/scripts/analyze.py       (single track)       *)
(*   packages/visualizer-poc/scripts/analyze_show.py  (show batch runner)  *)
(*                                                                         *)
(* Five specifications share the module:                                   *)
(*   Spec          the batch runner analyze_show.main, run once or twice   *)
(*   SpecSections  detect_sections on one track                            *)
(*   SpecClusters  the cluster count of detect_sections, as a function     *)
(*   SpecTier      the section energy rule, as a function of a frame range *)
(*   SpecAlign     pad_or_trim / pad_or_trim_2d and the frames loop        *)
(*                                                                         *)
(* Units.  Durations are in hundredths of a second (the code rounds every  *)
(* duration it hands on to 2 places).  A normalized feature value v in     *)
(* [0,1] is the integer v * Scale.  A mean is the exact fraction           *)
(* <<num, den>>.  The values used are dyadic and the sums small, so the    *)
(* float32/float64 arithmetic of the code is exact on them.                *)
(***************************************************************************)
EXTENDS Integers, Sequences, FiniteSets

\* ------------------------------------------------------------------ bounds
MaxSongs == 3
MaxWindows == 5
MaxSegs == 60
MaxLen == 3

\* value of 1.0 in a normalized stream (model unit, values are k/Scale)
Scale == 4

\* ------------------------------------------------------- program constants
SR == 22050
FPS == 30
seg_hop == 5 * FPS

Min(a, b) == IF a <= b THEN a ELSE b
Max(a, b) == IF a >= b THEN a ELSE b

\* values that stand for "nothing there"
NoField == "nofield"
Idle == "idle"

\* ---------------------------------------------------------------- analyze.py

\* duration = len(y) / sr ; n_frames = int(np.ceil(duration * FPS)).
\* Exact arithmetic; the float result is the same for every sample count
\* the model draws (it differs for some len(y) that are multiples of 735,
\* e.g. 31 * 735, none of which is drawn).
NFrames(samples) == (samples * FPS + SR - 1) \div SR

\* round(duration, 2), in hundredths.  len(y) * 100 / SR is never a tie
\* (x.5 would need 441 * odd divisible by 4), so half-up is exact.
Duration(samples) == (200 * samples + SR) \div (2 * SR)

\* n_segs = max(1, n_frames // seg_hop)
NSegs(nf) == Max(1, nf \div seg_hop)

NClustersStrict(ns) ==
    LET c == Min(Max(3, ns \div 4), 12)
    IN  IF ns < c THEN Max(2, ns - 1) ELSE c

NClustersMin1(ns) ==
    LET c == Min(Max(3, ns \div 4), 12)
    IN  IF ns <= c THEN Max(1, ns - 1) ELSE c

\* n_clusters = min(max(3, n_segs // 4), 12)
\* if n_segs <= n_clusters: n_clusters = max(2, n_segs - 1)
NClusters(ns) ==
    LET c == Min(Max(3, ns \div 4), 12)
    IN  IF ns <= c THEN Max(2, ns - 1) ELSE c

\* AgglomerativeClustering(n_clusters, connectivity).fit_predict(seg_features):
\* the library is not part of the repository.  It raises ValueError when
\* asked for more clusters than there are samples (and for a single sample);
\* otherwise it returns one label per window, using exactly n_clusters
\* distinct labels 0 .. n_clusters-1.  Which windows share a label depends on
\* the audio: every such labelling is allowed here.
ClusterOutcomes(ns, nc) ==
    IF nc > ns \/ ns < 2 THEN {}
    ELSE {l \in [1..ns -> 0..(nc - 1)] : Cardinality({l[i] : i \in 1..ns}) = nc}

\* rms_norm is piecewise constant: level rms[1] on even 5-second windows and
\* rms[2] on odd ones.  rms_norm[i], i counted from 0.
RmsAt(rms, i) == rms[((i \div seg_hop) % 2) + 1]

\* sum of rms_norm[frame_start:frame_end]
RECURSIVE SliceSum(_, _, _)
SliceSum(rms, fs, fe) ==
    IF fe <= fs THEN 0
    ELSE LET w_end == Min((fs \div seg_hop + 1) * seg_hop, fe)
         IN  RmsAt(rms, fs) * (w_end - fs) + SliceSum(rms, w_end, fe)

\* rms_norm[frame_start:frame_end].mean(), as the fraction <<num, den>>
SliceMean(rms, fs, fe) == <<SliceSum(rms, fs, fe), Scale * (fe - fs)>>

\* round(avg_energy, 3), in thousandths (nearest, ties to even; no mean the
\* model reaches is a tie, where the float result could go either way)
Round3(avg) ==
    LET q == (1000 * avg[1]) \div avg[2]
        r == (1000 * avg[1]) % avg[2]
    IN  IF 2 * r > avg[2] THEN q + 1
        ELSE IF 2 * r < avg[2] THEN q
        ELSE IF q % 2 = 0 THEN q ELSE q + 1

LoopEnergyGe(rms, fs, fe) ==
    LET avg == IF fe > fs THEN SliceMean(rms, fs, fe) ELSE <<0, 1>>
    IN  [avg |-> avg,
         energy |-> IF 2 * avg[1] >= avg[2] THEN "high"
                    ELSE IF 4 * avg[1] >= avg[2] THEN "mid" ELSE "low"]

\* lines 83-84: avg_energy and energy_label of a section closed in the loop
LoopEnergy(rms, fs, fe) ==
    LET avg == IF fe > fs THEN SliceMean(rms, fs, fe) ELSE <<0, 1>>
    IN  [avg |-> avg,
         energy |-> IF 2 * avg[1] > avg[2] THEN "high"
                    ELSE IF 4 * avg[1] > avg[2] THEN "mid" ELSE "low"]

\* lines 98-99: avg_energy and energy_label of the final section
FinalEnergy(rms, fs, fe) ==
    LET avg == IF fe > fs THEN SliceMean(rms, fs, fe) ELSE <<0, 1>>
    IN  [avg |-> avg,
         energy |-> IF 2 * avg[1] > avg[2] THEN "high"
                    ELSE IF 4 * avg[1] > avg[2] THEN "mid" ELSE "low"]

\* the section appended at lines 81-91 when labels[i] differs
LoopSection(nf, rms, section_start, i, k) ==
    LET frame_start == section_start * seg_hop
        frame_end == Min(i * seg_hop, nf)
        e == LoopEnergy(rms, frame_start, frame_end)
    IN  [frameStart |-> frame_start, frameEnd |-> frame_end, label |-> k,
         energy |-> e.energy, avgEnergy |-> Round3(e.avg)]

FinalSectionGap(nf, rms, section_start, k) ==
    LET frame_start == section_start * seg_hop
        frame_end == Max(frame_start, (nf \div seg_hop) * seg_hop)
        e == FinalEnergy(rms, frame_start, frame_end)
    IN  [frameStart |-> frame_start, frameEnd |-> frame_end, label |-> k,
         energy |-> e.energy, avgEnergy |-> Round3(e.avg)]

\* the final section, lines 96-106
FinalSection(nf, rms, section_start, k) ==
    LET frame_start == section_start * seg_hop
        frame_end == nf
        e == FinalEnergy(rms, frame_start, frame_end)
    IN  [frameStart |-> frame_start, frameEnd |-> frame_end, label |-> k,
         energy |-> e.energy, avgEnergy |-> Round3(e.avg)]

\* lines 75-93: the walk over labels[1:], i counted from 0 as in the code
\* (lab[i + 1] is labels[i])
RECURSIVE MergeLoop(_, _, _, _, _, _, _)
MergeLoop(nf, rms, lab, i, current_label, section_start, secs) ==
    IF i >= Len(lab) THEN [sections |-> secs, section_start |-> section_start]
    ELSE IF lab[i + 1] # current_label
         THEN MergeLoop(nf, rms, lab, i + 1, lab[i + 1], i,
                        Append(secs, LoopSection(nf, rms, section_start, i, Len(secs))))
         ELSE MergeLoop(nf, rms, lab, i + 1, current_label, section_start, secs)

\* lines 74-109: the list detect_sections returns for the labels lab
MergeSections(nf, rms, lab) ==
    LET w == MergeLoop(nf, rms, lab, 1, lab[1], 0, <<>>)
    IN  Append(w.sections, FinalSection(nf, rms, w.section_start, Len(w.sections)))

PadOrTrimZero(arr, length) ==
    IF Len(arr) >= length THEN SubSeq(arr, 1, length)
    ELSE arr \o [i \in 1..(length - Len(arr)) |-> 0]

\* pad_or_trim, lines 180-183: arr[:length], or np.pad(..., mode="edge")
PadOrTrim(arr, length) ==
    IF Len(arr) >= length THEN SubSeq(arr, 1, length)
    ELSE arr \o [i \in 1..(length - Len(arr)) |-> arr[Len(arr)]]

\* pad_or_trim_2d, lines 185-188: the same along axis 1 of every row
PadOrTrim2d(arr, length) ==
    IF Len(arr[1]) >= length
    THEN [c \in DOMAIN arr |-> SubSeq(arr[c], 1, length)]
    ELSE [c \in DOMAIN arr |->
            arr[c] \o [i \in 1..(length - Len(arr[1])) |-> arr[c][Len(arr[1])]]]

\* lines 206-220: one record per i in range(n_frames)
BuildFrames(nf, rms, chr) ==
    [i \in 1..nf |-> [rms |-> rms[i], chroma |-> [c \in DOMAIN chr |-> chr[c][i]]]]

VARIABLES
    pc,               \* position of the running script or function
    \* analyze_show.main
    setlist,          \* data/setlist.json
    audio_dir,        \* the audio directory: file name -> audio, or Absent
    resume,           \* "--resume" in sys.argv
    track_files,      \* data/tracks/{trackId}-analysis.json, or NoFile
    show_timeline,    \* data/show-timeline.json, or NoFile
    timeline_tracks, global_offset, total_duration,
    song_idx,         \* position of the for loop in setlist["songs"]
    error,            \* the exception that ended the run
    pipeline_runs,    \* calls of analyze_track made by this run
    files_written,    \* per-track files written by this run
    first_run,        \* what the previous run of the script was and wrote
    \* detect_sections (and SpecClusters, SpecTier)
    n_frames, rms_norm, n_segs, n_clusters, labels, sections,
    frame_start, frame_end, avg_energy, energy_label,
    \* the alignment step of analyze_track
    flatness_norm, chroma, frames

showVars == <<setlist, audio_dir, resume, track_files, show_timeline,
              timeline_tracks, global_offset, total_duration, song_idx, error,
              pipeline_runs, files_written, first_run>>
sectVars == <<n_frames, rms_norm, n_segs, n_clusters, labels, sections>>
tierVars == <<frame_start, frame_end, avg_energy, energy_label>>
alignVars == <<flatness_norm, chroma, frames>>
vars == <<pc, showVars, sectVars, tierVars, alignVars>>

IdleShow ==
    /\ setlist = Idle /\ audio_dir = Idle /\ resume = Idle /\ track_files = Idle
    /\ show_timeline = Idle /\ timeline_tracks = Idle /\ global_offset = Idle
    /\ total_duration = Idle /\ song_idx = Idle /\ error = Idle
    /\ pipeline_runs = Idle /\ files_written = Idle /\ first_run = Idle
IdleSect ==
    /\ n_frames = Idle /\ rms_norm = Idle /\ n_segs = Idle /\ n_clusters = Idle
    /\ labels = Idle /\ sections = Idle
IdleTier ==
    /\ frame_start = Idle /\ frame_end = Idle /\ avg_energy = Idle
    /\ energy_label = Idle
IdleAlign == flatness_norm = Idle /\ chroma = Idle /\ frames = Idle

\* frame counts drawn: every window count up to MaxWindows, on a window
\* boundary, one frame past it and one frame short of the next
FrameChoices == {w * seg_hop + r : w \in 0..MaxWindows, r \in {0, 1, seg_hop - 1}}
RmsProfiles == {<<a, b>> : a \in 0..Scale, b \in 0..Scale}

\* ------------------------------------------------------------ SpecSections
InitSections ==
    /\ pc = "detect"
    /\ n_frames \in FrameChoices
    /\ rms_norm \in RmsProfiles
    /\ n_segs = Idle /\ n_clusters = Idle /\ labels = Idle /\ sections = Idle
    /\ IdleShow /\ IdleTier /\ IdleAlign

\* detect_sections lines 49-72, the clustering returns
Cluster ==
    /\ pc = "detect"
    /\ \E l \in ClusterOutcomes(NSegs(n_frames), NClusters(NSegs(n_frames))) :
          labels' = l
    /\ n_segs' = NSegs(n_frames)
    /\ n_clusters' = NClusters(NSegs(n_frames))
    /\ pc' = "clustered"
    /\ UNCHANGED <<n_frames, rms_norm, sections, showVars, tierVars, alignVars>>

\* detect_sections lines 49-72, fit_predict raises
ClusterFails ==
    /\ pc = "detect"
    /\ ClusterOutcomes(NSegs(n_frames), NClusters(NSegs(n_frames))) = {}
    /\ n_segs' = NSegs(n_frames)
    /\ n_clusters' = NClusters(NSegs(n_frames))
    /\ pc' = "raised"
    /\ UNCHANGED <<n_frames, rms_norm, labels, sections, showVars, tierVars, alignVars>>

\* detect_sections lines 74-109
Merge ==
    /\ pc = "clustered"
    /\ sections' = MergeSections(n_frames, rms_norm, labels)
    /\ pc' = "returned"
    /\ UNCHANGED <<n_frames, rms_norm, n_segs, n_clusters, labels,
                   showVars, tierVars, alignVars>>

NextSections == Cluster \/ ClusterFails \/ Merge
SpecSections == InitSections /\ [][NextSections]_vars

\* ------------------------------------------------------------ SpecClusters
InitClusters ==
    /\ pc = "segs"
    /\ n_segs \in 1..MaxSegs
    /\ n_clusters = Idle
    /\ n_frames = Idle /\ rms_norm = Idle /\ labels = Idle /\ sections = Idle
    /\ IdleShow /\ IdleTier /\ IdleAlign

\* lines 63-66
ChooseClusters ==
    /\ pc = "segs"
    /\ n_clusters' = NClusters(n_segs)
    /\ pc' = "chosen"
    /\ UNCHANGED <<n_frames, rms_norm, n_segs, labels, sections,
                   showVars, tierVars, alignVars>>

NextClusters == ChooseClusters
SpecClusters == InitClusters /\ [][NextClusters]_vars

\* ---------------------------------------------------------------- SpecTier
InitTier ==
    /\ pc = "range"
    /\ rms_norm \in RmsProfiles
    /\ frame_start \in FrameChoices
    /\ frame_end \in FrameChoices
    /\ avg_energy = Idle /\ energy_label = Idle
    /\ n_frames = Idle /\ n_segs = Idle /\ n_clusters = Idle
    /\ labels = Idle /\ sections = Idle
    /\ IdleShow /\ IdleAlign

\* lines 83-84
LoopTier ==
    /\ pc = "range"
    /\ avg_energy' = LoopEnergy(rms_norm, frame_start, frame_end).avg
    /\ energy_label' = LoopEnergy(rms_norm, frame_start, frame_end).energy
    /\ pc' = "loop_section"
    /\ UNCHANGED <<frame_start, frame_end, sectVars, showVars, alignVars>>

\* lines 98-99
FinalTier ==
    /\ pc = "range"
    /\ avg_energy' = FinalEnergy(rms_norm, frame_start, frame_end).avg
    /\ energy_label' = FinalEnergy(rms_norm, frame_start, frame_end).energy
    /\ pc' = "final_section"
    /\ UNCHANGED <<frame_start, frame_end, sectVars, showVars, alignVars>>

NextTier == LoopTier \/ FinalTier
SpecTier == InitTier /\ [][NextTier]_vars

\* --------------------------------------------------------------- SpecAlign
\* native streams: at least one frame each (librosa frames a centered,
\* padded signal), their lengths independent of each other and of n_frames.
\* Two rows stand for the 12 chroma bins.
Streams == UNION {[1..n -> {0, 1}] : n \in 1..MaxLen}
Streams2d == UNION {[1..2 -> [1..n -> {0, 1}]] : n \in 1..MaxLen}

InitAlign ==
    /\ pc = "native"
    /\ n_frames \in 0..(MaxLen + 1)
    /\ flatness_norm \in Streams
    /\ chroma \in Streams2d
    /\ frames = Idle
    /\ rms_norm = Idle /\ n_segs = Idle /\ n_clusters = Idle
    /\ labels = Idle /\ sections = Idle
    /\ IdleShow /\ IdleTier

\* analyze_track lines 190-199
Align ==
    /\ pc = "native"
    /\ flatness_norm' = PadOrTrim(flatness_norm, n_frames)
    /\ chroma' = PadOrTrim2d(chroma, n_frames)
    /\ pc' = "aligned"
    /\ UNCHANGED <<frames, sectVars, showVars, tierVars>>

\* analyze_track lines 206-220
Frames ==
    /\ pc = "aligned"
    /\ frames' = BuildFrames(n_frames, flatness_norm, chroma)
    /\ pc' = "built"
    /\ UNCHANGED <<flatness_norm, chroma, sectVars, showVars, tierVars>>

NextAlign == Align \/ Frames
SpecAlign == InitAlign /\ [][NextAlign]_vars

\* ------------------------------------------------------------------- Spec
\* analyze_show.main.  The file system is the audio directory, the per-track
\* analysis files and the show timeline file; a file that does not exist is
\* [exists |-> FALSE], a key that a JSON object lacks is NoField.
Gone == [exists |-> FALSE]

TrackIds == {"t1", "t2"}
AudioFiles == {"a.mp3", "b.mp3"}

\* recordings of 5, 10 and 15 seconds; constant amplitude normalizes to 0
Audio5 == [exists |-> TRUE, samples |-> 5 * SR, rms |-> <<0, 0>>]
Audio10 == [exists |-> TRUE, samples |-> 10 * SR, rms |-> <<0, 0>>]
Audio15 == [exists |-> TRUE, samples |-> 15 * SR, rms |-> <<0, Scale>>]

\* what the audio directory may hold: each file is absent or one of two
\* recordings
AudioDirs ==
    {d \in [AudioFiles -> {Gone, Audio5, Audio10, Audio15}] :
        /\ d["a.mp3"] \in {Gone, Audio10, Audio15}
        /\ d["b.mp3"] \in {Gone, Audio5, Audio15}}

SongChoices ==
    {[trackId |-> "t1", audioFile |-> "a.mp3", title |-> "Morning Dew"],
     [trackId |-> "t2", audioFile |-> "b.mp3", title |-> "Dancing"],
     [trackId |-> "t1", audioFile |-> "b.mp3", title |-> "Reprise"]}

SongLists == UNION {[1..n -> SongChoices] : n \in 0..MaxSongs}

GoodSetlists ==
    {[malformed |-> FALSE, date |-> "1977-05-08", hasSongs |-> TRUE, songs |-> s] :
        s \in SongLists}

\* a setlist with one thing wrong: not JSON, no date, no songs, or one
\* song lacking one of its keys
BadSetlists ==
    {[malformed |-> TRUE, date |-> NoField, hasSongs |-> FALSE, songs |-> <<>>],
     [malformed |-> FALSE, date |-> "1977-05-08", hasSongs |-> FALSE, songs |-> <<>>]}
    \cup {[g EXCEPT !.date = NoField] : g \in GoodSetlists}
    \cup UNION {{[g EXCEPT !.songs[k][f] = NoField] :
                    k \in 1..Len(g.songs), f \in {"trackId", "audioFile", "title"}} :
                g \in GoodSetlists}

\* analyze_track, lines 118-242, for the labelling lab the clustering
\* returns: the record json.dump writes and the function returns.
\* numFrames is len(frames), one entry per i in range(n_frames); the
\* constant fields fps, sr, hopLength and the tempo are left out.
AnalyzeTrack(name, audio, lab) ==
    LET nf == NFrames(audio.samples)
    IN  [exists |-> TRUE,
         meta |-> [source |-> name,
                   duration |-> Duration(audio.samples),
                   totalFrames |-> nf,
                   sections |-> MergeSections(nf, audio.rms, lab)],
         numFrames |-> Cardinality(0..(nf - 1))]

\* the labellings analyze_track can get for this audio (none: it raises)
TrackOutcomes(audio) ==
    ClusterOutcomes(NSegs(NFrames(audio.samples)),
                    NClusters(NSegs(NFrames(audio.samples))))

\* an analysis an earlier run left behind: a 20-second recording
StaleFile ==
    AnalyzeTrack("old.mp3", [exists |-> TRUE, samples |-> 20 * SR, rms |-> <<0, 0>>],
                 <<0, 1, 2, 2>>)

\* lines 75-81
MissingEntry(track_id, offset) ==
    [trackId |-> track_id, globalFrameStart |-> offset, globalFrameEnd |-> offset,
     totalFrames |-> 0, missing |-> TRUE]

TimelineEntryNoOffset(track_id, offset, total_frames) ==
    [trackId |-> track_id, globalFrameStart |-> offset,
     globalFrameEnd |-> total_frames, totalFrames |-> total_frames]

\* lines 98-103
TimelineEntry(track_id, offset, total_frames) ==
    [trackId |-> track_id, globalFrameStart |-> offset,
     globalFrameEnd |-> offset + total_frames, totalFrames |-> total_frames]

IsMissing(e) == "missing" \in DOMAIN e /\ e.missing

NoRun == [ran |-> FALSE, resume |-> FALSE, completed |-> FALSE, timeline |-> Gone]

Init ==
    /\ pc = "start"
    /\ setlist \in GoodSetlists \cup BadSetlists
    /\ audio_dir \in AudioDirs
    /\ resume \in BOOLEAN
    /\ track_files \in {[t \in TrackIds |-> Gone],
                        [t \in TrackIds |-> IF t = "t1" THEN StaleFile ELSE Gone]}
    /\ show_timeline = Gone
    /\ timeline_tracks = <<>> /\ global_offset = 0 /\ total_duration = 0
    /\ song_idx = 0
    /\ error = "none"
    /\ pipeline_runs = 0 /\ files_written = 0
    /\ first_run = NoRun
    /\ IdleSect /\ IdleTier /\ IdleAlign

others == <<sectVars, tierVars, alignVars>>
song == setlist.songs[song_idx]
InLoop == pc = "loop" /\ song_idx <= Len(setlist.songs)
\* lines 67-68 found both keys
SongKeys == song.trackId # NoField /\ song.audioFile # NoField
Fresh == ~(resume /\ track_files[song.trackId].exists)

\* lines 36-66: the setlist is read and the loop entered
LoadSetlist ==
    /\ pc = "start"
    /\ ~setlist.malformed /\ setlist.hasSongs
    /\ timeline_tracks' = <<>> /\ global_offset' = 0 /\ total_duration' = 0
    /\ song_idx' = 1
    /\ pc' = "loop"
    /\ UNCHANGED <<setlist, audio_dir, resume, track_files, show_timeline, error,
                   pipeline_runs, files_written, first_run, others>>

\* line 46 raises (not JSON), or line 66 raises KeyError('songs')
LoadFails ==
    /\ pc = "start"
    /\ setlist.malformed \/ ~setlist.hasSongs
    /\ error' = IF setlist.malformed THEN "JSONDecodeError" ELSE "KeyError"
    /\ timeline_tracks' = <<>> /\ global_offset' = 0 /\ total_duration' = 0
    /\ pc' = "aborted"
    /\ UNCHANGED <<setlist, audio_dir, resume, track_files, show_timeline, song_idx,
                   pipeline_runs, files_written, first_run, others>>

\* line 67, 68 or 92 raises KeyError: the song lacks trackId or audioFile,
\* or lacks title and is about to be analyzed
SongKeyError ==
    /\ InLoop
    /\ \/ ~SongKeys
       \/ /\ SongKeys
          /\ audio_dir[song.audioFile].exists
          /\ Fresh
          /\ song.title = NoField
    /\ error' = "KeyError"
    /\ pc' = "aborted"
    /\ UNCHANGED <<setlist, audio_dir, resume, track_files, show_timeline,
                   timeline_tracks, global_offset, total_duration, song_idx,
                   pipeline_runs, files_written, first_run, others>>

SongMissingAdvances ==
    /\ InLoop /\ SongKeys
    /\ ~audio_dir[song.audioFile].exists
    /\ timeline_tracks' = Append(timeline_tracks, MissingEntry(song.trackId, global_offset))
    /\ total_duration' = total_duration + 1
    /\ song_idx' = song_idx + 1
    /\ UNCHANGED <<pc, setlist, audio_dir, resume, track_files, show_timeline,
                   global_offset, error,
                   pipeline_runs, files_written, first_run, others>>

\* lines 72-82: the audio file is not there
SongMissing ==
    /\ InLoop /\ SongKeys
    /\ ~audio_dir[song.audioFile].exists
    /\ timeline_tracks' = Append(timeline_tracks, MissingEntry(song.trackId, global_offset))
    /\ song_idx' = song_idx + 1
    /\ UNCHANGED <<pc, setlist, audio_dir, resume, track_files, show_timeline,
                   global_offset, total_duration, error,
                   pipeline_runs, files_written, first_run, others>>

\* lines 84-89 and 98-106: the persisted analysis is read
SongResumed ==
    /\ InLoop /\ SongKeys
    /\ audio_dir[song.audioFile].exists
    /\ ~Fresh
    /\ LET existing == track_files[song.trackId]
           total_frames == existing.meta.totalFrames
           track_duration == existing.meta.duration
       IN  /\ timeline_tracks' =
                Append(timeline_tracks, TimelineEntry(song.trackId, global_offset, total_frames))
           /\ global_offset' = global_offset + total_frames
           /\ total_duration' = total_duration + track_duration
    /\ song_idx' = song_idx + 1
    /\ UNCHANGED <<pc, setlist, audio_dir, resume, track_files, show_timeline, error,
                   pipeline_runs, files_written, first_run, others>>

\* lines 90-106: analyze_track runs, writes the per-track file and returns
SongAnalyzed ==
    /\ InLoop /\ SongKeys
    /\ audio_dir[song.audioFile].exists
    /\ Fresh
    /\ song.title # NoField
    /\ \E lab \in TrackOutcomes(audio_dir[song.audioFile]) :
          LET result == AnalyzeTrack(song.audioFile, audio_dir[song.audioFile], lab)
              total_frames == result.meta.totalFrames
              track_duration == result.meta.duration
          IN  /\ track_files' = [track_files EXCEPT ![song.trackId] = result]
              /\ timeline_tracks' =
                   Append(timeline_tracks, TimelineEntry(song.trackId, global_offset, total_frames))
              /\ global_offset' = global_offset + total_frames
              /\ total_duration' = total_duration + track_duration
    /\ song_idx' = song_idx + 1
    /\ pipeline_runs' = pipeline_runs + 1
    /\ files_written' = files_written + 1
    /\ UNCHANGED <<pc, setlist, audio_dir, resume, show_timeline, error, first_run, others>>

\* lines 90-94: analyze_track runs and the clustering raises ValueError
\* (analyze.py line 72), before anything is written
SongAnalysisFails ==
    /\ InLoop /\ SongKeys
    /\ audio_dir[song.audioFile].exists
    /\ Fresh
    /\ song.title # NoField
    /\ TrackOutcomes(audio_dir[song.audioFile]) = {}
    /\ pipeline_runs' = pipeline_runs + 1
    /\ error' = "ValueError"
    /\ pc' = "aborted"
    /\ UNCHANGED <<setlist, audio_dir, resume, track_files, show_timeline,
                   timeline_tracks, global_offset, total_duration, song_idx,
                   files_written, first_run, others>>

\* lines 108-118.  round(total_duration, 2) leaves a sum of hundredths as it is.
WriteTimeline ==
    /\ pc = "loop" /\ song_idx > Len(setlist.songs)
    /\ setlist.date # NoField
    /\ show_timeline' = [exists |-> TRUE,
                         date |-> setlist.date,
                         totalFrames |-> global_offset,
                         totalDuration |-> total_duration,
                         tracks |-> timeline_tracks]
    /\ pc' = "done"
    /\ UNCHANGED <<setlist, audio_dir, resume, track_files, timeline_tracks,
                   global_offset, total_duration, song_idx, error,
                   pipeline_runs, files_written, first_run, others>>

\* line 110 raises KeyError('date')
WriteFails ==
    /\ pc = "loop" /\ song_idx > Len(setlist.songs)
    /\ setlist.date = NoField
    /\ error' = "KeyError"
    /\ pc' = "aborted"
    /\ UNCHANGED <<setlist, audio_dir, resume, track_files, show_timeline,
                   timeline_tracks, global_offset, total_duration, song_idx,
                   pipeline_runs, files_written, first_run, others>>

\* the script is started a second time, with or without --resume, on the
\* files the first run left
Rerun ==
    /\ pc \in {"done", "aborted"}
    /\ ~first_run.ran
    /\ first_run' = [ran |-> TRUE, resume |-> resume, completed |-> pc = "done",
                     timeline |-> show_timeline]
    /\ resume' \in BOOLEAN
    /\ timeline_tracks' = <<>> /\ global_offset' = 0 /\ total_duration' = 0
    /\ song_idx' = 0
    /\ error' = "none"
    /\ pipeline_runs' = 0 /\ files_written' = 0
    /\ pc' = "start"
    /\ UNCHANGED <<setlist, audio_dir, track_files, show_timeline, others>>

Next ==
    \/ LoadSetlist \/ LoadFails
    \/ SongKeyError \/ SongMissing \/ SongResumed \/ SongAnalyzed \/ SongAnalysisFails
    \/ WriteTimeline \/ WriteFails
    \/ Rerun

Spec == Init /\ [][Next]_vars

\* ================================================================== claims

\* C1 (Spec): after every loop iteration the timeline is gap-free: the first
\* entry starts at frame 0, every later entry starts where the previous one
\* ends, and a missing entry has globalFrameStart = globalFrameEnd.
C1_TimelineContiguous ==
    /\ \A i \in 1..Len(timeline_tracks) :
          /\ i = 1 => timeline_tracks[i].globalFrameStart = 0
          /\ i > 1 => timeline_tracks[i].globalFrameStart =
                         timeline_tracks[i - 1].globalFrameEnd
          /\ IsMissing(timeline_tracks[i]) =>
                timeline_tracks[i].globalFrameStart = timeline_tracks[i].globalFrameEnd
    /\ show_timeline.exists =>
          \A i \in 1..Len(show_timeline.tracks) :
             /\ i = 1 => show_timeline.tracks[i].globalFrameStart = 0
             /\ i > 1 => show_timeline.tracks[i].globalFrameStart =
                            show_timeline.tracks[i - 1].globalFrameEnd
             /\ IsMissing(show_timeline.tracks[i]) =>
                   show_timeline.tracks[i].globalFrameStart =
                      show_timeline.tracks[i].globalFrameEnd

\* a resumed run, mid-loop: a missing track between two present ones
C1_Witness ==
    /\ resume /\ first_run.ran
    /\ Len(timeline_tracks) = 3
    /\ timeline_tracks[1].totalFrames > 0
    /\ IsMissing(timeline_tracks[2])
    /\ timeline_tracks[3].totalFrames > 0
    /\ timeline_tracks[3].globalFrameStart = timeline_tracks[1].globalFrameEnd
    /\ pipeline_runs = 0

\* C3 (Spec): a run without --resume followed by a run with --resume leaves
\* the show timeline the first run wrote.
C3_ResumeIdempotent ==
    (/\ pc = "done" /\ resume
     /\ first_run.ran /\ first_run.completed /\ ~first_run.resume) =>
        show_timeline = first_run.timeline

RECURSIVE SumTo(_, _)
SumTo(f, n) == IF n = 0 THEN 0 ELSE f[n] + SumTo(f, n - 1)

\* the metadata main uses for song i of a run that completed: that of the
\* persisted analysis when resuming, that of the audio otherwise
TrackMetaOf(i) ==
    LET s == setlist.songs[i]
    IN  IF resume THEN track_files[s.trackId].meta
        ELSE [totalFrames |-> NFrames(audio_dir[s.audioFile].samples),
              duration |-> Duration(audio_dir[s.audioFile].samples)]

\* C4 (Spec): a completed batch has one entry per song, in setlist order;
\* an entry is flagged missing, with totalFrames 0, exactly when the song's
\* audio file is absent; totalFrames and totalDuration of the show are the
\* sums over the songs whose audio is present.
C4_MissingTracks ==
    pc = "done" =>
        LET songs == setlist.songs
            tr == show_timeline.tracks
            present(i) == audio_dir[songs[i].audioFile].exists
            n == Len(songs)
        IN  /\ Len(tr) = n
            /\ \A i \in 1..n :
                  /\ tr[i].trackId = songs[i].trackId
                  /\ IsMissing(tr[i]) <=> ~present(i)
                  /\ ~present(i) => tr[i].totalFrames = 0
                  /\ present(i) => tr[i].totalFrames = TrackMetaOf(i).totalFrames
            /\ show_timeline.totalFrames =
                  SumTo([i \in 1..n |-> IF present(i) THEN tr[i].totalFrames ELSE 0], n)
            /\ show_timeline.totalDuration =
                  SumTo([i \in 1..n |-> IF present(i) THEN TrackMetaOf(i).duration ELSE 0], n)

\* three songs, the second one's audio absent
C4_Witness ==
    /\ pc = "done"
    /\ Len(show_timeline.tracks) = 3
    /\ ~IsMissing(show_timeline.tracks[1])
    /\ IsMissing(show_timeline.tracks[2])
    /\ ~IsMissing(show_timeline.tracks[3])
    /\ show_timeline.totalFrames =
          show_timeline.tracks[1].totalFrames + show_timeline.tracks[3].totalFrames
    /\ show_timeline.totalFrames > show_timeline.tracks[1].totalFrames
    /\ show_timeline.totalDuration > 0

\* C5 (Spec): when the run aborts on the setlist (not JSON, or a required
\* key absent), no per-track pipeline run has been started and no per-track
\* file has been written.
C5_ConfigErrorBeforeTracks ==
    (pc = "aborted" /\ error \in {"JSONDecodeError", "KeyError"}) =>
        pipeline_runs = 0 /\ files_written = 0

\* the first song of the batch has just been analyzed and is a 10-second recording
FirstTrackTenSeconds ==
    /\ pc = "loop" /\ song_idx = 2 /\ pipeline_runs = 1
    /\ audio_dir[setlist.songs[1].audioFile].samples = 10 * SR

\* C7 as stated (Spec): 300 frames, one section [0, 300), timeline entry
\* [0, 300).
C7_AsStated ==
    FirstTrackTenSeconds =>
        LET f == track_files[setlist.songs[1].trackId]
        IN  /\ f.meta.totalFrames = 300 /\ f.numFrames = 300
            /\ Len(f.meta.sections) = 1
            /\ f.meta.sections[1].frameStart = 0
            /\ f.meta.sections[1].frameEnd = 300
            /\ timeline_tracks[1].globalFrameStart = 0
            /\ timeline_tracks[1].globalFrameEnd = 300

\* C7 amended (Spec): 300 frames, two sections [0, 150) and [150, 300),
\* timeline entry [0, 300).
C7_TenSecondTrack ==
    FirstTrackTenSeconds =>
        LET f == track_files[setlist.songs[1].trackId]
        IN  /\ f.meta.totalFrames = 300 /\ f.numFrames = 300
            /\ Len(f.meta.sections) = 2
            /\ f.meta.sections[1].frameStart = 0
            /\ f.meta.sections[1].frameEnd = 150
            /\ f.meta.sections[2].frameStart = 150
            /\ f.meta.sections[2].frameEnd = 300
            /\ timeline_tracks[1].globalFrameStart = 0
            /\ timeline_tracks[1].globalFrameEnd = 300

C7_Witness ==
    /\ FirstTrackTenSeconds
    /\ Len(timeline_tracks) = 1
    /\ timeline_tracks[1].totalFrames = 300
    /\ track_files[setlist.songs[1].trackId].numFrames = 300

\* C2 (SpecSections): the list detect_sections returns is ordered by
\* frameStart, starts at frame 0, each later section starts where the
\* previous one ends, and the last one ends at n_frames.
C2_SectionsCover ==
    pc = "returned" =>
        /\ Len(sections) >= 1
        /\ sections[1].frameStart = 0
        /\ sections[Len(sections)].frameEnd = n_frames
        /\ \A k \in 2..Len(sections) :
              /\ sections[k].frameStart = sections[k - 1].frameEnd
              /\ sections[k - 1].frameStart <= sections[k].frameStart

\* a track of three or more sections whose length is not a whole number of windows
C2_Witness ==
    /\ pc = "returned"
    /\ Len(sections) >= 3
    /\ n_frames % seg_hop # 0
    /\ sections[Len(sections)].frameEnd = n_frames

\* C6 (SpecSections): a track with one coarse window yields exactly one
\* section [0, n_frames), and the cluster count requested never exceeds the
\* number of windows.
C6_OneWindowOneSection ==
    (pc # "detect" /\ n_segs = 1) =>
        /\ n_clusters <= n_segs
        /\ pc # "raised"
        /\ pc = "returned" =>
              /\ Len(sections) = 1
              /\ sections[1].frameStart = 0
              /\ sections[1].frameEnd = n_frames

\* round(n / 4), Python 3: nearest, ties to even
RoundQuarter(n) ==
    LET q == n \div 4
        r == n % 4
    IN  IF r > 2 THEN q + 1
        ELSE IF r < 2 THEN q
        ELSE IF q % 2 = 0 THEN q ELSE q + 1

Clamp(x, lo, hi) == IF x < lo THEN lo ELSE IF x > hi THEN hi ELSE x

\* C8 as stated (SpecClusters): the count is clamp(round(n_segs / 4), 3, 12),
\* replaced by max(2, n_segs - 1) exactly when n_segs is smaller than it.
C8_AsStated ==
    pc = "chosen" =>
        LET target == Clamp(RoundQuarter(n_segs), 3, 12)
        IN  n_clusters = IF n_segs < target THEN Max(2, n_segs - 1) ELSE target

\* C8 amended (SpecClusters): the count is clamp(floor(n_segs / 4), 3, 12),
\* replaced by max(2, n_segs - 1) exactly when n_segs is smaller than or
\* equal to it.  Spelled out: 2 for up to 3 windows, 3 for 4..15,
\* floor(n_segs / 4) for 16..47, 12 from 48 on.
C8_ClusterCount ==
    pc = "chosen" =>
        LET target == Clamp(n_segs \div 4, 3, 12)
        IN  /\ n_clusters = IF n_segs <= target THEN Max(2, n_segs - 1) ELSE target
            /\ n_segs <= 3 => n_clusters = 2
            /\ n_segs \in 4..15 => n_clusters = 3
            /\ n_segs \in 16..47 => 4 * n_clusters <= n_segs /\ n_segs < 4 * (n_clusters + 1)
            /\ n_segs >= 48 => n_clusters = 12

\* three windows: as many as the target, and the count is reduced to 2
C8_Witness == pc = "chosen" /\ n_segs = 3 /\ n_clusters = 2

\* C9 (SpecAlign): the alignment step leaves every stream with exactly
\* n_frames entries along the frame axis; entries that existed before keep
\* their value, entries past the native end repeat the native last value;
\* and the frames list has n_frames entries.
AlignedFrom(native, out, length) ==
    /\ Len(out) = length
    /\ \A i \in 1..length :
          out[i] = IF i <= Len(native) THEN native[i] ELSE native[Len(native)]

C9_FrameAlignment ==
    /\ [][(pc = "native" /\ pc' = "aligned") =>
            /\ AlignedFrom(flatness_norm, flatness_norm', n_frames)
            /\ DOMAIN chroma' = DOMAIN chroma
            /\ \A c \in DOMAIN chroma : AlignedFrom(chroma[c], chroma'[c], n_frames)]_vars
    /\ [](pc = "built" => Len(frames) = n_frames)

\* every native stream is shorter than n_frames: the frames past the native
\* end carry the edge value 1 although the stream starts at 0
C9_Witness ==
    /\ pc = "built"
    /\ n_frames = MaxLen + 1
    /\ Len(frames) = n_frames
    /\ frames[1].rms = 0
    /\ frames[n_frames].rms = 1
    /\ frames[n_frames].chroma[2] = 1

\* C10 (SpecTier): the tier is high iff mean > 0.5, mid iff
\* 0.25 < mean <= 0.5, low iff mean <= 0.25, for a section closed in the
\* loop and for the final one; an empty range has mean 0 and tier low.
C10_EnergyTier ==
    pc \in {"loop_section", "final_section"} =>
        LET empty == frame_end <= frame_start
            num == IF empty THEN 0 ELSE SliceSum(rms_norm, frame_start, frame_end)
            den == IF empty THEN 1 ELSE Scale * (frame_end - frame_start)
        IN  /\ avg_energy[1] * den = num * avg_energy[2]
            /\ energy_label = "high" <=> 2 * num > den
            /\ energy_label = "mid" <=> (4 * num > den /\ 2 * num <= den)
            /\ energy_label = "low" <=> 4 * num <= den
            /\ empty => avg_energy[1] = 0 /\ energy_label = "low"

\* a final section of two windows whose mean is exactly 0.5: tier mid
C10_Witness ==
    /\ pc = "final_section"
    /\ frame_end > frame_start
    /\ 2 * avg_energy[1] = avg_energy[2]
    /\ rms_norm[1] # rms_norm[2]
    /\ energy_label = "mid"

\* what one loop iteration on a song with trackId and audioFile does to
\* the per-track files, under the state selection of the batch runner
PipelineRan ==
    /\ pipeline_runs' = pipeline_runs + 1
    /\ files_written' = files_written + 1
    /\ track_files'[song.trackId].exists
    /\ track_files'[song.trackId].meta.source = song.audioFile

ReadOnlyResume ==
    /\ track_files' = track_files
    /\ pipeline_runs' = pipeline_runs /\ files_written' = files_written
    /\ timeline_tracks' = Append(timeline_tracks,
          [trackId |-> song.trackId,
           globalFrameStart |-> global_offset,
           globalFrameEnd |-> global_offset + track_files[song.trackId].meta.totalFrames,
           totalFrames |-> track_files[song.trackId].meta.totalFrames])
    /\ total_duration' = total_duration + track_files[song.trackId].meta.duration

MissingNoFiles ==
    /\ track_files' = track_files
    /\ pipeline_runs' = pipeline_runs /\ files_written' = files_written
    /\ Len(timeline_tracks') = Len(timeline_tracks) + 1
    /\ IsMissing(timeline_tracks'[Len(timeline_tracks')])
    /\ global_offset' = global_offset /\ total_duration' = total_duration

\* C11 (Spec): for each setlist song, analyze_track is run and writes the
\* per-track file if and only if the audio is present and (resume is off or
\* no analysis is persisted); with resume on and an analysis persisted for a
\* present audio file only its totalFrames and duration are read and the
\* files stay as they are; with the audio absent the track is missing
\* whatever resume and the persisted files are, and no per-track file is
\* touched.
C11_StateSelection ==
    [][(InLoop /\ SongKeys) =>
         LET present == audio_dir[song.audioFile].exists
             persisted == track_files[song.trackId].exists
         IN  /\ PipelineRan <=> (present /\ (~resume \/ ~persisted))
             /\ (present /\ resume /\ persisted) => ReadOnlyResume
             /\ ~present => MissingNoFiles]_vars

\* the same selection for the songs whose iteration does not raise: the
\* song has its title and the recording is long enough to be clustered
C11_SelectionWhenNoRaise ==
    [][(InLoop /\ SongKeys /\ pc' = "loop") =>
         LET present == audio_dir[song.audioFile].exists
             persisted == track_files[song.trackId].exists
         IN  /\ PipelineRan <=> (present /\ (~resume \/ ~persisted))
             /\ (present /\ resume /\ persisted) => ReadOnlyResume
             /\ ~present => MissingNoFiles]_vars

====
